---- MODULE Spec2Model ----
(***************************************************************************)
(* Model of lib/wasm-contract/src/contract.rs: the Contract aggregate      *)
(* (imports and exports of a wasm module), the key derivation of Import    *)
(* and Export, and Contract::merge.                                        *)
(*                                                                         *)
(* merge is modelled statement by statement: the clone of self, one step   *)
(* per entry taken from other's HashMap iterators, and the two returns.    *)
(* A HashMap iterates in an unspecified order, so each step takes any of   *)
(* the entries that are left.                                              *)
(*                                                                         *)
(* The callers are the calls of test::merging_works (Spec), and, for the   *)
(* laws about chains of merges, a driver that feeds the result of one      *)
(* merge into the next (SpecChain, SpecFold).                              *)
(***************************************************************************)
EXTENDS Naturals, Sequences, FiniteSets, TLC

VARIABLES
    store,   \* location -> slot: the callers' aggregates, merge's results, merge's local `base`
    prog,    \* the calls the caller makes, in order: <<[self, other], ...>>
    ip,      \* index in prog of the call that runs or runs next
    pc,      \* "call" (in the caller) | "imports" | "exports" (in the loops of merge)
    base,    \* location of merge's local `base`
    other,   \* merge's parameter `other` (moved in)
    itI,     \* keys other.imports.into_iter() has not yielded yet
    itE      \* keys other.exports.into_iter() has not yielded yet

vars == <<store, prog, ip, pc, base, other, itI, itE>>

----------------------------------------------------------------------------
(* Bounds of the input universes.                                          *)

\* how many signatures of ImportSigs an import of Spec is drawn from
NumImportSigs == 5
\* how many signatures of ExportSigs an export of Spec is drawn from
NumExportSigs == 2
\* longest list of aggregates SpecFold folds
MaxMods == 3

----------------------------------------------------------------------------
(* The entity model.                                                       *)

WasmType == {"I32", "I64", "F32", "F64"}

Import_Func(namespace, name, params, result) ==
    [variant |-> "Func", namespace |-> namespace, name |-> name,
     params |-> params, result |-> result]

Import_Global(namespace, name, var_type) ==
    [variant |-> "Global", namespace |-> namespace, name |-> name,
     var_type |-> var_type]

Export_Func(name, params, result) ==
    [variant |-> "Func", name |-> name, params |-> params, result |-> result]

Export_Global(name, var_type) ==
    [variant |-> "Global", name |-> name, var_type |-> var_type]

Import_format_key(ns, name) == <<ns, name>>

\* both arms of the match build the key from the entity's own fields
Import_get_key(e) ==
    CASE e.variant = "Func"   -> Import_format_key(e.namespace, e.name)
      [] e.variant = "Global" -> Import_format_key(e.namespace, e.name)

Export_format_key(name) == name

Export_get_key(e) ==
    CASE e.variant = "Func"   -> Export_format_key(e.name)
      [] e.variant = "Global" -> Export_format_key(e.name)

\* the elements of a list, without their order
Elems(ts) == {ts[i] : i \in 1..Len(ts)}

Import_ne_Unordered(val, stored) ==
    ~(/\ val.variant = stored.variant
      /\ val.namespace = stored.namespace
      /\ val.name = stored.name
      /\ IF val.variant = "Func"
         THEN /\ Len(val.params) = Len(stored.params)
              /\ Elems(val.params) = Elems(stored.params)
              /\ val.result = stored.result
         ELSE val.var_type = stored.var_type)

Import_ne_Always(val, stored) == TRUE

Import_ne_Never(val, stored) == FALSE

\* val != base.imports[&key], by #[derive(PartialEq)] on Import: equal iff the
\* same variant with every field equal, the lists element by element in order
Import_ne(val, stored) == val # stored

Export_ne_Always(val, stored) == TRUE

\* val != base.exports[&key], by #[derive(PartialEq)] on Export
Export_ne(val, stored) == val # stored

\* #[derive(Debug)] rendering, as the tokens it prints
DebugTypes(ts) == <<"[">> \o ts \o <<"]">>

Import_Debug(e) ==
    IF e.variant = "Func"
    THEN <<"Func {", "namespace:", e.namespace, "name:", e.name, "params:">>
         \o DebugTypes(e.params) \o <<"result:">> \o DebugTypes(e.result) \o <<"}">>
    ELSE <<"Global {", "namespace:", e.namespace, "name:", e.name,
           "var_type:", e.var_type, "}">>

Export_Debug(e) ==
    IF e.variant = "Func"
    THEN <<"Func {", "name:", e.name, "params:">>
         \o DebugTypes(e.params) \o <<"result:">> \o DebugTypes(e.result) \o <<"}">>
    ELSE <<"Global {", "name:", e.name, "var_type:", e.var_type, "}">>

----------------------------------------------------------------------------
(* The aggregate and its maps.                                             *)

Contract(imports, exports) == [imports |-> imports, exports |-> exports]

\* #[derive(Default)]: two empty maps
Contract_default == Contract(<<>>, <<>>)

contains_key(m, k) == k \in DOMAIN m

insert_Dropped(m, k, v) == m

\* HashMap::insert of a key the map does not hold
insert(m, k, v) == [x \in DOMAIN m \cup {k} |-> IF x = k THEN v ELSE m[x]]

\* the maps a parser builds from sets of entities: each entity under its own key
ImportMapOf(entities) ==
    [k \in {Import_get_key(e) : e \in entities} |->
        CHOOSE e \in entities : Import_get_key(e) = k]

ExportMapOf(entities) ==
    [k \in {Export_get_key(e) : e \in entities} |->
        CHOOSE e \in entities : Export_get_key(e) = k]

----------------------------------------------------------------------------
(* Slots of the store.                                                     *)

Ok(c) == [status |-> "Ok", val |-> c]

Err(msg) == [status |-> "Err", msg |-> msg]

NotRun == [status |-> "NotRun"]

In(i) == <<"in", i>>

Out(j) == <<"out", j>>

Local == <<"base", 0>>

----------------------------------------------------------------------------
(* Contract::merge.                                                        *)

\* base.imports.contains_key(&key) and, when it holds, base.imports[&key]:
\* <<>> when the key is absent, else the stored definition
imports_get(b, key) ==
    IF contains_key(b.imports, key) THEN <<b.imports[key]>> ELSE <<>>

exports_get_SharedSpace(b, key) ==
    IF contains_key(b.exports, key) THEN <<b.exports[key]>>
    ELSE IF \E ik \in DOMAIN b.imports : ik[2] = key
         THEN <<b.imports[CHOOSE ik \in DOMAIN b.imports : ik[2] = key]>>
         ELSE <<>>

\* base.exports.contains_key(&key) and, when it holds, base.exports[&key]
exports_get(b, key) ==
    IF contains_key(b.exports, key) THEN <<b.exports[key]>> ELSE <<>>

ImportConflictMsg_Swapped(key, stored, val) ==
    <<"Conflict detected: the import \"", key[1], "\" \"", key[2],
      "\" was found but the definitions were different: ">>
    \o Import_Debug(val) \o <<" ">> \o Import_Debug(stored)

\* the format! of the import conflict: key.0, key.1, base.imports[&key], val
ImportConflictMsg(key, stored, val) ==
    <<"Conflict detected: the import \"", key[1], "\" \"", key[2],
      "\" was found but the definitions were different: ">>
    \o Import_Debug(stored) \o <<" ">> \o Import_Debug(val)

\* the format! of the export conflict: key, base.exports[&key], val
ExportConflictMsg(key, stored, val) ==
    <<"Conflict detected: the key ", key,
      " was found in exports but the definitions were different: ">>
    \o Export_Debug(stored) \o <<" ">> \o Export_Debug(val)

BaseLoc_Aliased(selfLoc) == selfLoc

\* let mut base = self.clone(): base is a fresh object, not self
BaseLoc(selfLoc) == Local

\* the caller evaluates its next call: self.merge(other.clone()); merge clones self
Call ==
    /\ pc = "call"
    /\ ip <= Len(prog)
    /\ store[prog[ip].self].status = "Ok"
    /\ store[prog[ip].other].status = "Ok"
    /\ base' = BaseLoc(prog[ip].self)
    /\ store' = [store EXCEPT ![BaseLoc(prog[ip].self)] = Ok(store[prog[ip].self].val)]
    /\ other' = store[prog[ip].other].val
    /\ itI' = DOMAIN store[prog[ip].other].val.imports
    /\ itE' = {}
    /\ pc' = "imports"
    /\ UNCHANGED <<prog, ip>>

\* the key is in base with another definition: return Err
ImportConflict ==
    /\ pc = "imports"
    /\ \E key \in itI :
        LET val == other.imports[key]
            got == imports_get(store[base].val, key)
        IN  /\ got # <<>>
            /\ Import_ne(val, got[1])
            /\ store' = [store EXCEPT ![Out(ip)] = Err(ImportConflictMsg(key, got[1], val))]
            /\ itI' = itI \ {key}
    /\ pc' = "call"
    /\ ip' = ip + 1
    /\ UNCHANGED <<prog, base, other, itE>>

\* the key is in base with an equal definition: nothing to do
ImportSame ==
    /\ pc = "imports"
    /\ \E key \in itI :
        LET val == other.imports[key]
            got == imports_get(store[base].val, key)
        IN  /\ got # <<>>
            /\ ~Import_ne(val, got[1])
            /\ itI' = itI \ {key}
    /\ UNCHANGED <<store, prog, ip, pc, base, other, itE>>

\* the key is not in base: base.imports.insert(key, val)
ImportInsert ==
    /\ pc = "imports"
    /\ \E key \in itI :
        LET val == other.imports[key]
            got == imports_get(store[base].val, key)
        IN  /\ got = <<>>
            /\ store' = [store EXCEPT ![base].val.imports = insert(@, key, val)]
            /\ itI' = itI \ {key}
    /\ UNCHANGED <<prog, ip, pc, base, other, itE>>

\* the imports loop ends; the exports loop starts
ImportsDone ==
    /\ pc = "imports"
    /\ itI = {}
    /\ itE' = DOMAIN other.exports
    /\ pc' = "exports"
    /\ UNCHANGED <<store, prog, ip, base, other, itI>>

ExportConflict ==
    /\ pc = "exports"
    /\ \E key \in itE :
        LET val == other.exports[key]
            got == exports_get(store[base].val, key)
        IN  /\ got # <<>>
            /\ Export_ne(val, got[1])
            /\ store' = [store EXCEPT ![Out(ip)] = Err(ExportConflictMsg(key, got[1], val))]
            /\ itE' = itE \ {key}
    /\ pc' = "call"
    /\ ip' = ip + 1
    /\ UNCHANGED <<prog, base, other, itI>>

ExportSame ==
    /\ pc = "exports"
    /\ \E key \in itE :
        LET val == other.exports[key]
            got == exports_get(store[base].val, key)
        IN  /\ got # <<>>
            /\ ~Export_ne(val, got[1])
            /\ itE' = itE \ {key}
    /\ UNCHANGED <<store, prog, ip, pc, base, other, itI>>

ExportInsert ==
    /\ pc = "exports"
    /\ \E key \in itE :
        LET val == other.exports[key]
            got == exports_get(store[base].val, key)
        IN  /\ got = <<>>
            /\ store' = [store EXCEPT ![base].val.exports = insert(@, key, val)]
            /\ itE' = itE \ {key}
    /\ UNCHANGED <<prog, ip, pc, base, other, itI>>

\* both loops ended: Ok(base)
ReturnOk ==
    /\ pc = "exports"
    /\ itE = {}
    /\ store' = [store EXCEPT ![Out(ip)] = Ok(store[base].val)]
    /\ pc' = "call"
    /\ ip' = ip + 1
    /\ UNCHANGED <<prog, base, other, itI, itE>>

Next ==
    \/ Call
    \/ ImportConflict
    \/ ImportSame
    \/ ImportInsert
    \/ ImportsDone
    \/ ExportConflict
    \/ ExportSame
    \/ ExportInsert
    \/ ReturnOk

----------------------------------------------------------------------------
(* The callers.                                                            *)

ImportSigs ==
    << [variant |-> "Func", params |-> <<"I32">>, result |-> <<"I32">>],
       [variant |-> "Func", params |-> <<"I64">>, result |-> <<"I64">>],
       [variant |-> "Func", params |-> <<"I64", "I32">>, result |-> <<"I64">>],
       [variant |-> "Func", params |-> <<"I32", "I64">>, result |-> <<"I64">>],
       [variant |-> "Global", var_type |-> "I64"],
       [variant |-> "Func", params |-> <<"I64", "I64">>, result |-> <<"I64">>],
       [variant |-> "Global", var_type |-> "F64"] >>

ExportSigs ==
    << [variant |-> "Func", params |-> <<>>, result |-> <<>>],
       [variant |-> "Func", params |-> <<>>, result |-> <<"I64">>],
       [variant |-> "Global", var_type |-> "I64"],
       [variant |-> "Func", params |-> <<"F32">>, result |-> <<>>] >>

ImportOf(key, sig) ==
    IF sig.variant = "Func"
    THEN Import_Func(key[1], key[2], sig.params, sig.result)
    ELSE Import_Global(key[1], key[2], sig.var_type)

ExportOf(key, sig) ==
    IF sig.variant = "Func"
    THEN Export_Func(key, sig.params, sig.result)
    ELSE Export_Global(key, sig.var_type)

Min(a, b) == IF a < b THEN a ELSE b

PairImportEntities ==
    {ImportOf(k, ImportSigs[i]) :
        k \in {<<"env", "plus_one">>, <<"env", "times_two">>},
        i \in 1..Min(NumImportSigs, Len(ImportSigs))}

PairExportEntities ==
    {ExportOf(k, ExportSigs[i]) :
        k \in {"plus_one"}, i \in 1..Min(NumExportSigs, Len(ExportSigs))}

\* the sets of entities that give each key at most one definition
KeyedImports(entities) ==
    {S \in SUBSET entities :
        \A e1, e2 \in S : Import_get_key(e1) = Import_get_key(e2) => e1 = e2}

KeyedExports(entities) ==
    {S \in SUBSET entities :
        \A e1, e2 \in S : Export_get_key(e1) = Export_get_key(e2) => e1 = e2}

PairContracts ==
    {Contract(ImportMapOf(I), ExportMapOf(E)) :
        I \in KeyedImports(PairImportEntities),
        E \in KeyedExports(PairExportEntities)}

Locs(nIn, nCalls) ==
    {Local} \cup {In(i) : i \in 0..nIn} \cup {Out(j) : j \in 1..nCalls}

\* the store before the first call: the inputs, and In(0) = Contract::default()
StoreOf(inputs, nCalls) ==
    [l \in Locs(Len(inputs), nCalls) |->
        IF l[1] = "in"
        THEN IF l[2] = 0 THEN Ok(Contract_default) ELSE Ok(inputs[l[2]])
        ELSE NotRun]

Start(inputs, program) ==
    /\ store = StoreOf(inputs, Len(program))
    /\ prog = program
    /\ ip = 1
    /\ pc = "call"
    /\ base = Local
    /\ other = Contract_default
    /\ itI = {}
    /\ itE = {}

\* the calls of test::merging_works on two aggregates A = In(1), B = In(2)
PairProgram ==
    << [self |-> In(1), other |-> In(2)],
       [self |-> In(2), other |-> In(1)],
       [self |-> In(1), other |-> In(1)],
       [self |-> In(1), other |-> In(2)] >>

Init == \E a, b \in PairContracts : Start(<<a, b>>, PairProgram)

Spec == Init /\ [][Next]_vars

----------------------------------------------------------------------------
(* Chains of merges. The aggregates are those of test::merging_works and   *)
(* some of the merges the test makes of them.                              *)

plus_one_i32 == Import_Func("env", "plus_one", <<"I32">>, <<"I32">>)

plus_one_i64 == Import_Func("env", "plus_one", <<"I64">>, <<"I64">>)

times_two_1 == Import_Func("env", "times_two", <<"I64">>, <<"I64">>)

times_two_2 == Import_Func("env", "times_two", <<"I64", "I64">>, <<"I64">>)

account_0 == Export_Func("empty_bank_account", <<>>, <<>>)

account_1 == Export_Func("empty_bank_account", <<>>, <<"I64">>)

\* the aggregate a parser builds of the entities it reads
parse_contract(importEntities, exportEntities) ==
    Contract(ImportMapOf(importEntities), ExportMapOf(exportEntities))

ChainContracts ==
    { Contract_default,
      parse_contract({plus_one_i32}, {}),
      parse_contract({plus_one_i64}, {}),
      parse_contract({times_two_1}, {}),
      parse_contract({times_two_2}, {}),
      parse_contract({}, {account_0}),
      parse_contract({}, {account_1}),
      parse_contract({plus_one_i32, times_two_1}, {}),
      parse_contract({plus_one_i64, times_two_1}, {account_1}),
      parse_contract({plus_one_i32}, {account_0}),
      parse_contract({times_two_2}, {account_0}),
      parse_contract({Import_Global("env", "plus_one", "I32")},
                     {Export_Global("empty_bank_account", "I64")}) }

\* every way to merge three aggregates A = In(1), B = In(2), C = In(3), two at
\* a time; the calls 2, 4, 6, 8, 9, 11, 13 return the merges of all three
ChainProgram ==
    << [self |-> In(1),   other |-> In(2)],
       [self |-> Out(1),  other |-> In(3)],
       [self |-> In(2),   other |-> In(3)],
       [self |-> In(1),   other |-> Out(3)],
       [self |-> In(1),   other |-> In(3)],
       [self |-> Out(5),  other |-> In(2)],
       [self |-> In(2),   other |-> In(1)],
       [self |-> Out(7),  other |-> In(3)],
       [self |-> Out(3),  other |-> In(1)],
       [self |-> In(3),   other |-> In(1)],
       [self |-> Out(10), other |-> In(2)],
       [self |-> In(3),   other |-> In(2)],
       [self |-> Out(12), other |-> In(1)] >>

ChainFinals == {2, 4, 6, 8, 9, 11, 13}

InitChain == \E a, b, c \in ChainContracts : Start(<<a, b, c>>, ChainProgram)

SpecChain == InitChain /\ [][Next]_vars

\* the left fold of merge over n aggregates, from Contract::default()
FoldProgram(n) ==
    [j \in 1..n |-> [self |-> IF j = 1 THEN In(0) ELSE Out(j - 1), other |-> In(j)]]

InitFold ==
    \E n \in 0..MaxMods :
        \E mods \in [1..n -> ChainContracts] : Start(mods, FoldProgram(n))

SpecFold == InitFold /\ [][Next]_vars

----------------------------------------------------------------------------
(* Vocabulary of the properties.                                           *)

A == store[In(1)].val

B == store[In(2)].val

Done(j) == store[Out(j)].status # "NotRun"

Failed(j) == store[Out(j)].status = "Err"

Succeeded(j) == store[Out(j)].status = "Ok"

\* the keys both aggregates define, with differing definitions
ImportConflicts(x, y) ==
    {k \in DOMAIN x.imports \cap DOMAIN y.imports : x.imports[k] # y.imports[k]}

ExportConflicts(x, y) ==
    {k \in DOMAIN x.exports \cap DOMAIN y.exports : x.exports[k] # y.exports[k]}

\* equal-or-disjoint on every key
Compatible(x, y) == ImportConflicts(x, y) = {} /\ ExportConflicts(x, y) = {}

\* the map that holds m1's entries and, for the keys m1 lacks, m2's
MapUnion(m1, m2) ==
    [k \in DOMAIN m1 \cup DOMAIN m2 |-> IF k \in DOMAIN m1 THEN m1[k] ELSE m2[k]]

\* the arguments of the j-th call
SelfOf(j) == store[prog[j].self].val

OtherOf(j) == store[prog[j].other].val

----------------------------------------------------------------------------
(* Properties of one merge and of two merges of the same pair (Spec).      *)

\* C1: when A and B share an import key or an export key with differing
\* definitions, merge(A,B) and merge(B,A) both return an error.
C1_ConflictSymmetry ==
    (Done(1) /\ Done(2) /\ ~Compatible(A, B)) => (Failed(1) /\ Failed(2))

\* both merges ran on a pair whose only difference is the order of two
\* parameter types of one import
C1_Witness ==
    /\ Done(1) /\ Done(2)
    /\ ExportConflicts(A, B) = {}
    /\ \E k \in DOMAIN A.imports \cap DOMAIN B.imports :
        /\ ImportConflicts(A, B) = {k}
        /\ A.imports[k].variant = "Func" /\ B.imports[k].variant = "Func"
        /\ A.imports[k].result = B.imports[k].result
        /\ A.imports[k].params # B.imports[k].params
        /\ Elems(A.imports[k].params) = Elems(B.imports[k].params)

\* C2: merge(A, copy of A) succeeds and returns an aggregate equal to A.
C2_Reflexive == Done(3) => store[Out(3)] = Ok(A)

C2_Witness ==
    /\ Done(3)
    /\ Cardinality(DOMAIN A.imports) = 2
    /\ Cardinality(DOMAIN A.exports) = 1

\* C3: when every key A and B share has equal definitions, merge(A,B) and
\* merge(B,A) both succeed and return equal aggregates.
C3_Commutes ==
    (Done(1) /\ Done(2) /\ Compatible(A, B)) =>
        (Succeeded(1) /\ Succeeded(2) /\ store[Out(1)].val = store[Out(2)].val)

\* both merges ran on compatible aggregates that share a key and each hold a
\* key the other lacks
C3_Witness ==
    /\ Done(1) /\ Done(2) /\ Compatible(A, B)
    /\ DOMAIN A.imports \ DOMAIN B.imports # {}
    /\ DOMAIN B.imports \ DOMAIN A.imports # {}
    /\ DOMAIN A.exports \cap DOMAIN B.exports # {}

\* C4: when merge(A,B) succeeds, the imports of the result are exactly the
\* union of the import keys of A and B, each with the definition A or B gives
\* it, and so are the exports; a shared key counts once.
C4_Union ==
    Succeeded(1) =>
        /\ store[Out(1)].val.imports = MapUnion(A.imports, B.imports)
        /\ store[Out(1)].val.imports = MapUnion(B.imports, A.imports)
        /\ store[Out(1)].val.exports = MapUnion(A.exports, B.exports)
        /\ store[Out(1)].val.exports = MapUnion(B.exports, A.exports)
        /\ Cardinality(DOMAIN store[Out(1)].val.imports)
             + Cardinality(DOMAIN A.imports \cap DOMAIN B.imports)
           = Cardinality(DOMAIN A.imports) + Cardinality(DOMAIN B.imports)
        /\ Cardinality(DOMAIN store[Out(1)].val.exports)
             + Cardinality(DOMAIN A.exports \cap DOMAIN B.exports)
           = Cardinality(DOMAIN A.exports) + Cardinality(DOMAIN B.exports)

\* a successful merge in which B's only import is one of A's two, counted
\* once in the result, and B's export is new to A
C4_Witness ==
    /\ Succeeded(1)
    /\ Cardinality(DOMAIN A.imports) = 2
    /\ Cardinality(DOMAIN B.imports) = 1
    /\ DOMAIN B.imports \subseteq DOMAIN A.imports
    /\ DOMAIN A.exports = {} /\ DOMAIN B.exports # {}
    /\ Cardinality(DOMAIN store[Out(1)].val.imports) = 2

\* C5: a merge fails exactly when an import key of both has differing
\* definitions or an export key of both has; an import of one and an export of
\* the other with the same name never make it fail.
C5_SeparateKeySpaces ==
    /\ Done(1) => (Failed(1) <=> ~Compatible(A, B))
    /\ Done(2) => (Failed(2) <=> ~Compatible(A, B))

\* both merges succeeded although A imports a name that B exports
C5_Witness ==
    /\ Succeeded(1) /\ Succeeded(2)
    /\ DOMAIN B.imports = {} /\ DOMAIN A.exports = {}
    /\ \E ik \in DOMAIN A.imports : ik[2] \in DOMAIN B.exports

InputsKept ==
    /\ store'[In(1)] = store[In(1)]
    /\ store'[In(2)] = store[In(2)]

\* what a failed call leaves, and what the calls after it return
C6_After ==
    /\ \A j \in 1..Len(prog) : Failed(j) => DOMAIN store[Out(j)] = {"status", "msg"}
    /\ Done(3) => store[Out(3)] = Ok(A)
    /\ Done(4) => /\ store[Out(4)].status = store[Out(1)].status
                  /\ Succeeded(1) => store[Out(4)] = store[Out(1)]

\* C6: no step of merge changes the caller's aggregates; a failed merge
\* returns no aggregate; the merges after it return what they return without it.
C6_BaseUnchanged == [][InputsKept]_vars /\ []C6_After

\* merge(A,B) has just failed after it had added an entry of B to its base
C6_Witness ==
    /\ pc = "call" /\ ip = 2 /\ Failed(1)
    /\ store[Local].val # A

\* msg is the import conflict report for key k, base definition d1, incoming d2
IsImportReport(msg, k, d1, d2) ==
    /\ Len(msg) > 5
    /\ msg[1] = "Conflict detected: the import \""
    /\ msg[2] = k[1]
    /\ msg[4] = k[2]
    /\ SubSeq(msg, 6, Len(msg)) = Import_Debug(d1) \o <<" ">> \o Import_Debug(d2)

\* msg is the export conflict report for key k, base definition d1, incoming d2
IsExportReport(msg, k, d1, d2) ==
    /\ Len(msg) > 3
    /\ msg[1] = "Conflict detected: the key "
    /\ msg[2] = k
    /\ msg[3] = " was found in exports but the definitions were different: "
    /\ SubSeq(msg, 4, Len(msg)) = Export_Debug(d1) \o <<" ">> \o Export_Debug(d2)

\* C7: the report of a failed merge(base, incoming) names the map (import or
\* export), a key of that map both hold with differing definitions, and the
\* definition of base followed by the definition of incoming.
C7_Report ==
    \A j \in 1..Len(prog) : Failed(j) =>
        \/ \E k \in ImportConflicts(SelfOf(j), OtherOf(j)) :
             IsImportReport(store[Out(j)].msg, k,
                            SelfOf(j).imports[k], OtherOf(j).imports[k])
        \/ \E k \in ExportConflicts(SelfOf(j), OtherOf(j)) :
             IsExportReport(store[Out(j)].msg, k,
                            SelfOf(j).exports[k], OtherOf(j).exports[k])

\* merge(A,B) reported an import while an export conflicts too
C7_Witness ==
    /\ Failed(1)
    /\ ExportConflicts(A, B) # {}
    /\ \E k \in ImportConflicts(A, B) :
         IsImportReport(store[Out(1)].msg, k, A.imports[k], B.imports[k])

\* C9: two merges of the same base and the same incoming return the same
\* outcome: the same aggregate or the same report.
C9_SameOutcome == Done(4) => store[Out(4)] = store[Out(1)]

----------------------------------------------------------------------------
(* Properties of chains of merges (SpecChain, SpecFold).                   *)

\* the number of aggregates the caller starts from
NumInputs == Cardinality({l \in DOMAIN store : l[1] = "in" /\ l[2] > 0})

PairwiseCompatible ==
    \A i, j \in 1..NumInputs : Compatible(store[In(i)].val, store[In(j)].val)

\* C8: when A, B, C are pairwise equal-or-disjoint, every merge of a chain
\* over them succeeds, and merge(merge(A,B),C), merge(A,merge(B,C)) and the
\* folds of every permutation of A, B, C return the same aggregate.
C8_ChainsAgree ==
    PairwiseCompatible =>
        /\ \A j \in 1..Len(prog) : ~Failed(j)
        /\ \A j \in ChainFinals : Done(j) => store[Out(j)] = store[Out(2)]

\* every chain ran on three different aggregates that overlap pairwise
C8_Witness ==
    /\ pc = "call" /\ ip = Len(prog) + 1
    /\ PairwiseCompatible
    /\ \A j \in ChainFinals : Succeeded(j)
    /\ Cardinality({store[In(1)], store[In(2)], store[In(3)]}) = 3
    /\ \A i \in 1..3 : Cardinality(DOMAIN store[In(i)].val.imports) > 0
    /\ Cardinality(DOMAIN store[Out(2)].val.imports) = 2
    /\ Cardinality(DOMAIN store[Out(2)].val.exports) = 1

\* the fold has stopped: at the end of the list or at the first error
FoldEnded ==
    /\ pc = "call"
    /\ \/ ip = Len(prog) + 1
       \/ ip > 1 /\ Failed(ip - 1)

FoldSucceeded ==
    /\ pc = "call"
    /\ ip = Len(prog) + 1
    /\ \A j \in 1..Len(prog) : Succeeded(j)

\* C10: the left fold of merge over a list, from the empty aggregate and
\* stopping at the first error, succeeds exactly when every two aggregates of
\* the list are equal-or-disjoint on every import key and every export key.
C10_FoldSucceedsIffCompatible ==
    FoldEnded => (FoldSucceeded <=> PairwiseCompatible)

\* the fold failed at its third aggregate, which conflicts with the first and
\* not with the second, the second holding entries of its own
C10_Witness ==
    /\ FoldEnded /\ Len(prog) = 3 /\ ip = 4 /\ Failed(3)
    /\ ~Compatible(store[In(1)].val, store[In(3)].val)
    /\ Compatible(store[In(2)].val, store[In(3)].val)
    /\ store[In(2)].val # Contract_default

====
